---- MODULE Spec2Model ----
(***************************************************************************)
(* Model of src/src/scrapper.py: the LinkedInScraper class (browser        *)
(* session, search navigation with pagination, page parser, detail         *)
(* fetcher, CSV writer) and the __main__ entry point that drives it.       *)
(*                                                                         *)
(* Text is a sequence of one-character strings, so that str.strip() and    *)
(* the CSV rendering are computed rather than assumed.  The web site and   *)
(* the browser driver are the environment: every driver call may raise,    *)
(* and every page load may bring any page of the bounded page set.         *)
(***************************************************************************)
EXTENDS Integers, Sequences, FiniteSets, TLC

VARIABLES
    pc,         \* position of the single thread of control
    status,     \* "running", or how the process ended: "normal" / "fatal"
    driver,     \* the browser handle: "none", "active", "quit"
    url,        \* what the browser was last told to load
    dom,        \* the page the browser holds (what page_source returns)
    site,       \* the kinds of listing card the site shows
    served,     \* listing cards the site has served so far
    data,       \* self.data, the accumulator
    clock,      \* wall clock read by pd.Timestamp.now()
    file,       \* the CSV file on disk
    log,        \* levels that have been logged above INFO
    roleIdx,    \* __main__: index of the for loop over target_roles
    role,       \* argument of the running search_jobs / parse_current_page
    num_pages,  \* argument of the running search_jobs
    page,       \* search_jobs: loop variable of range(num_pages)
    inSearch,   \* parse_current_page was called by search_jobs
    i,          \* extract_full_descriptions: loop index (1-based)
    callee,     \* the method the caller is running or has just run
    result,     \* how that method ended: "none" (not yet), "returned", or the exception
    calls,      \* harness: method calls made so far
    h           \* history: counters of what has happened

vars == <<pc, status, driver, url, dom, site, served, data, clock, file, log,
          roleIdx, role, num_pages, page, inSearch, i, callee, result, calls, h>>

---------------------------------------------------------------------------
(* Bounds of the model *)

\* listing cards the site serves in one run, over all pages
MaxListings == 2
\* largest num_pages the harness passes to search_jobs
MaxPages == 2
\* method calls the harness makes on one scraper
MaxCalls == 2
\* records of the accumulators the detail fetcher and the writer start from
MaxRecords == 2

---------------------------------------------------------------------------
(* Text *)

WS == {" "}

RECURSIVE LStrip(_)
LStrip(s) == IF s # <<>> /\ Head(s) \in WS THEN LStrip(Tail(s)) ELSE s

RECURSIVE RStrip(_)
RStrip(s) ==
    IF s # <<>> /\ s[Len(s)] \in WS THEN RStrip(SubSeq(s, 1, Len(s) - 1)) ELSE s

\* str.strip()
Strip(s) == RStrip(LStrip(s))

Digit == <<"0", "1", "2", "3", "4", "5", "6", "7", "8", "9">>

\* str(n) for a natural number
RECURSIVE Str(_)
Str(n) == IF n < 10 THEN <<Digit[n + 1]>>
          ELSE Str(n \div 10) \o <<Digit[(n % 10) + 1]>>

---------------------------------------------------------------------------
(* The entry point's constants *)

target_roles ==
    << <<"D","a","t","a"," ","A","n","a","l","y","s","t">>,
       <<"D","a","t","a"," ","S","c","i","e","n","t","i","s","t">>,
       <<"C","o","n","s","u","l","t","a","n","t">>,
       <<"S","u","p","p","l","y"," ","C","h","a","i","n"," ","A","n","a","l","y","s","t">>,
       <<"M","a","r","k","e","t","i","n","g"," ","A","n","a","l","y","s","t">> >>

\* num_pages=2 in the entry point's call of search_jobs
MainNumPages == 2

---------------------------------------------------------------------------
(* The site: listing cards and pages.                                      *)
(* A sub-element of a card is <<>> when find() returns None and <<text>>   *)
(* when it is there.  The anchor is <<>> (no anchor), << <<>> >> (an       *)
(* anchor without href) or << <<href>> >>.                                 *)

Full1 == [title    |-> << <<" ", "A", " ">> >>,
          company  |-> << <<"C", " ">> >>,
          location |-> << <<" ", "L">> >>,
          anchor   |-> << << <<"u", "1">> >> >>]

Full2 == [title    |-> << <<"B">> >>,
          company  |-> << <<"D">> >>,
          location |-> << <<"M", " ", "N">> >>,
          anchor   |-> << << <<"u", "2">> >> >>]

NoTitle    == [Full1 EXCEPT !.title = <<>>]
NoCompany  == [Full1 EXCEPT !.company = <<>>]
NoLocation == [Full1 EXCEPT !.location = <<>>]
NoAnchor   == [Full1 EXCEPT !.anchor = <<>>]
NoHref     == [Full1 EXCEPT !.anchor = << <<>> >>]

Cards == {Full1, Full2, NoTitle, NoCompany, NoLocation, NoAnchor, NoHref}

\* the kinds of card met in the runs of the entry point
MainCards == {Full1, NoCompany, NoAnchor}

RECURSIVE SeqsUpTo(_, _)
SeqsUpTo(S, n) ==
    IF n = 0 THEN {<<>>}
    ELSE LET shorter == SeqsUpTo(S, n - 1)
         IN  shorter \cup {Append(s, x) : s \in {t \in shorter : Len(t) = n - 1}, x \in S}

\* text of the description container of a detail page
DescTexts == {<<" ", "J", "D", " ">>}

\* a page is the listing cards it holds and, on a detail page, the description
DetailPages    == [cards : {<<>>}, desc : {<<>>} \cup {<<t>> : t \in DescTexts}]

Blank == [cards |-> <<>>, desc |-> <<>>]

---------------------------------------------------------------------------
(* parse_current_page: the per-card extraction *)

\* The exception the four lookups of one card raise, in the order the code
\* makes them; "none" when all four succeed.  find() returning None makes
\* `.text` raise AttributeError and `["href"]` raise TypeError; an anchor
\* without the attribute makes `["href"]` raise KeyError.
CardError(card) ==
    IF card.title = <<>> THEN "AttributeError"
    ELSE IF card.company = <<>> THEN "AttributeError"
    ELSE IF card.location = <<>> THEN "AttributeError"
    ELSE IF card.anchor = <<>> THEN "TypeError"
    ELSE IF card.anchor[1] = <<>> THEN "KeyError"
    ELSE "none"

\* except AttributeError: continue
CardCaught(e) == e = "AttributeError"

\* the dict appended for a card whose four lookups succeeded
MakeRecord(card, r, now) ==
    [job_title     |-> Strip(card.title[1]),
     company       |-> Strip(card.company[1]),
     location      |-> Strip(card.location[1]),
     job_link      |-> card.anchor[1][1],
     role_category |-> r,
     scraped_date  |-> now]

\* the for loop over job_cards: the accumulator it leaves, and the exception
\* that ended it ("none" when it ran to the end)
RECURSIVE ParseCards(_, _, _, _)
ParseCards(cards, r, now, acc) ==
    IF cards = <<>> THEN [data |-> acc, exc |-> "none"]
    ELSE LET e == CardError(Head(cards))
         IN  IF e = "none"
             THEN ParseCards(Tail(cards), r, now, Append(acc, MakeRecord(Head(cards), r, now)))
             ELSE IF CardCaught(e)
             THEN ParseCards(Tail(cards), r, now, acc)
             ELSE [data |-> acc, exc |-> e]

---------------------------------------------------------------------------
(* extract_full_descriptions: the per-record enrichment *)

\* Python's None, as a description
None == <<"None">>

\* SetDescription that stores a new dict in place of the record
SetDescriptionOnly(job, v) == [description |-> v]

\* job with job['description'] = v
SetDescription(job, v) ==
    [k \in DOMAIN job \cup {"description"} |-> IF k = "description" THEN v ELSE job[k]]

\* the value the if/else on desc_box stores
DescriptionOf(p) == IF p.desc # <<>> THEN Strip(p.desc[1]) ELSE None

---------------------------------------------------------------------------
(* save_data: pd.DataFrame(self.data).to_csv(filename, index=False) *)

\* insertion order of the keys of a record
KeyOrder == <<"job_title", "company", "location", "job_link",
              "role_category", "scraped_date", "description">>

Range(s) == {s[n] : n \in DOMAIN s}

KeysOf(rec) == SelectSeq(KeyOrder, LAMBDA k : k \in DOMAIN rec)

\* the columns of the frame: the keys of the records, in order of first appearance
RECURSIVE ColumnsFrom(_, _)
ColumnsFrom(recs, cols) ==
    IF recs = <<>> THEN cols
    ELSE ColumnsFrom(Tail(recs),
                     cols \o SelectSeq(KeysOf(Head(recs)), LAMBDA k : k \notin Range(cols)))

Columns(recs) == ColumnsFrom(recs, <<>>)

\* the text of one cell: a missing key (NaN) and None are written as nothing
Cell(rec, k) ==
    IF k \notin DOMAIN rec THEN <<>>
    ELSE IF k = "scraped_date" THEN Str(rec[k])
    ELSE IF k = "description" /\ rec[k] = None THEN <<>>
    ELSE rec[k]

\* the content of the file written
ToCsv(recs) ==
    LET cols == Columns(recs)
    IN  [header |-> cols,
         rows   |-> [r \in 1..Len(recs) |-> [c \in 1..Len(cols) |-> Cell(recs[r], cols[c])]],
         whole  |-> TRUE]

NoFile == [header |-> <<>>, rows |-> <<>>, whole |-> FALSE]

\* a write that failed part of the way: the header and some of the rows
Truncated(f, n) == [header |-> f.header, rows |-> SubSeq(f.rows, 1, n), whole |-> FALSE]

---------------------------------------------------------------------------
(* State *)

History0 ==
    [closeCalls  |-> 0,      \* calls of close()
     lateUse     |-> FALSE,  \* a driver call was made before the launch or after close()
     saveCalls   |-> 0,      \* calls of save_data
     searches    |-> 0,      \* calls of search_jobs
     searchesOk  |-> 0,      \* calls of search_jobs that returned
     navOk       |-> FALSE,  \* this search_jobs call: driver.get returned
     parses      |-> 0,      \* this search_jobs call: parse_current_page calls
     paginations |-> 0,      \* this search_jobs call: entries of the try block
     clicks      |-> 0,      \* this search_jobs call: calls of next_button.click()
     clicksOk    |-> 0,      \* this search_jobs call: clicks that returned
     unset0      |-> {},     \* this extract call: records without description at its start
     failed      |-> {},     \* this extract call: records whose fetch failed
     saved       |-> <<>>]   \* <<accumulator, file>> of the last save_data that returned

\* any call on self.driver
Use(hist) == [hist EXCEPT !.lateUse = @ \/ driver # "active" \/ hist.closeCalls > 0]

Raised(r) == r \notin {"none", "returned"}

TypeOK ==
    /\ pc \in {"launch", "for_role", "except", "finally", "exit", "idle", "ret",
               "sj_get", "sj_for", "pp", "sj_scroll", "sj_find", "sj_click",
               "ex_for", "ex_get", "ex_src", "sd", "close"}
    /\ status \in {"running", "normal", "fatal"}
    /\ driver \in {"none", "active", "quit"}
    /\ site \subseteq Cards
    /\ served \in 0..MaxListings
    /\ log \subseteq {"warning", "error", "critical"}
    /\ roleIdx \in 0..(Len(target_roles) + 1)
    /\ inSearch \in BOOLEAN
    /\ callee \in {"none", "search_jobs", "parse_current_page",
                   "extract_full_descriptions", "save_data", "close"}

\* line 136 has not run yet
Init ==
    /\ pc = "launch"
    /\ status = "running"
    /\ driver = "none"
    /\ url = <<>>
    /\ dom = Blank
    /\ site = MainCards
    /\ served = 0
    /\ data = <<>>
    /\ clock = 0
    /\ file = NoFile
    /\ log = {}
    /\ roleIdx = 0
    /\ role = <<>>
    /\ num_pages = 0
    /\ page = 0
    /\ inSearch = FALSE
    /\ i = 0
    /\ callee = "none"
    /\ result = "none"
    /\ calls = 0
    /\ h = History0

---------------------------------------------------------------------------
(* LinkedInScraper.__init__ *)

\* webdriver.Chrome(...) returned: self.driver is live and self.data = []
Construct ==
    /\ driver' = "active"
    /\ data' = <<>>

---------------------------------------------------------------------------
(* search_jobs *)

\* what a call of search_jobs(r, n) starts with
EnterSearch(r, n) ==
    /\ pc' = "sj_get"
    /\ callee' = "search_jobs"
    /\ result' = "none"
    /\ role' = r
    /\ num_pages' = n
    /\ page' = 0
    /\ inSearch' = FALSE
    /\ h' = [h EXCEPT !.searches = @ + 1, !.navOk = FALSE, !.parses = 0,
                      !.paginations = 0, !.clicks = 0, !.clicksOk = 0]

\* the pages the site can still serve
Servable == [cards : SeqsUpTo(site, MaxListings - served), desc : {<<>>}]

\* driver.get(base_url) returns; random_sleep(3, 6)
SJ_GetOk ==
    /\ pc = "sj_get"
    /\ \E p \in Servable :
        /\ dom' = p
        /\ served' = served + Len(p.cards)
    /\ url' = <<"search", role>>
    /\ h' = [Use(h) EXCEPT !.navOk = TRUE]
    /\ pc' = "sj_for"
    /\ UNCHANGED <<site, status, driver, data, clock, file, log, roleIdx, role, num_pages, page,
                   inSearch, i, callee, result, calls>>

\* driver.get(base_url) raises: nothing in search_jobs catches it
SJ_GetRaise ==
    /\ pc = "sj_get"
    /\ h' = Use(h)
    /\ result' = "WebDriverException"
    /\ pc' = "ret"
    /\ UNCHANGED <<site, status, driver, url, dom, served, data, clock, file, log, roleIdx,
                   role, num_pages, page, inSearch, i, callee, calls>>

\* MorePages of a loop that runs once more than asked
MorePagesOffByOne == page <= num_pages

\* range(num_pages) has another value for page
MorePages == page < num_pages

\* for page in range(num_pages): the next iteration calls parse_current_page(role)
SJ_Iterate ==
    /\ pc = "sj_for"
    /\ MorePages
    /\ inSearch' = TRUE
    /\ h' = [h EXCEPT !.parses = @ + 1]
    /\ pc' = "pp"
    /\ UNCHANGED <<site, status, driver, url, dom, served, data, clock, file, log, roleIdx,
                   role, num_pages, page, i, callee, result, calls>>

\* range(num_pages) is exhausted: search_jobs returns
SJ_Done ==
    /\ pc = "sj_for"
    /\ ~MorePages
    /\ inSearch' = FALSE
    /\ result' = "returned"
    /\ h' = [h EXCEPT !.searchesOk = @ + 1]
    /\ pc' = "ret"
    /\ UNCHANGED <<site, status, driver, url, dom, served, data, clock, file, log, roleIdx,
                   role, num_pages, page, i, callee, calls>>

\* Break without the try statement: the driver's exception leaves search_jobs
BreakRaises ==
    /\ log' = log
    /\ inSearch' = FALSE
    /\ result' = "WebDriverException"
    /\ pc' = "ret"

\* except Exception: logging.warning(...); break -- and search_jobs returns
Break ==
    /\ log' = log \cup {"warning"}
    /\ inSearch' = FALSE
    /\ result' = "returned"
    /\ pc' = "ret"

\* execute_script("window.scrollTo(...)") returns; random_sleep()
SJ_ScrollOk ==
    /\ pc = "sj_scroll"
    /\ h' = [Use(h) EXCEPT !.paginations = @ + 1]
    /\ pc' = "sj_find"
    /\ UNCHANGED <<site, status, driver, url, dom, served, data, clock, file, log, roleIdx, role,
                   num_pages, page, inSearch, i, callee, result, calls>>

SJ_ScrollRaise ==
    /\ pc = "sj_scroll"
    /\ h' = [Use(h) EXCEPT !.paginations = @ + 1, !.searchesOk = @ + 1]
    /\ Break
    /\ UNCHANGED <<site, status, driver, url, dom, served, data, clock, file, roleIdx, role,
                   num_pages, page, i, callee, calls>>

\* find_element(By.XPATH, "//button[@aria-label='Next']") returns the button
SJ_FindOk ==
    /\ pc = "sj_find"
    /\ h' = Use(h)
    /\ pc' = "sj_click"
    /\ UNCHANGED <<site, status, driver, url, dom, served, data, clock, file, log, roleIdx,
                   role, num_pages, page, inSearch, i, callee, result, calls>>

SJ_FindRaise ==
    /\ pc = "sj_find"
    /\ h' = [Use(h) EXCEPT !.searchesOk = @ + 1]
    /\ Break
    /\ UNCHANGED <<site, status, driver, url, dom, served, data, clock, file, roleIdx, role,
                   num_pages, page, i, callee, calls>>

\* next_button.click() returns and the next page is shown; random_sleep(4, 7)
SJ_ClickOk ==
    /\ pc = "sj_click"
    /\ \E p \in Servable :
        /\ dom' = p
        /\ served' = served + Len(p.cards)
    /\ h' = [Use(h) EXCEPT !.clicks = @ + 1, !.clicksOk = @ + 1]
    /\ page' = page + 1
    /\ pc' = "sj_for"
    /\ UNCHANGED <<site, status, driver, url, data, clock, file, log, roleIdx, role, num_pages,
                   inSearch, i, callee, result, calls>>

SJ_ClickRaise ==
    /\ pc = "sj_click"
    /\ h' = [Use(h) EXCEPT !.clicks = @ + 1, !.searchesOk = @ + 1]
    /\ Break
    /\ UNCHANGED <<site, status, driver, url, dom, served, data, clock, file, roleIdx, role,
                   num_pages, page, i, callee, calls>>

---------------------------------------------------------------------------
(* parse_current_page *)

\* where control goes when parse_current_page ends with exception e ("none":
\* it returned).  search_jobs calls it outside its try block.
LeaveParse(e) ==
    IF e = "none" /\ inSearch
    THEN /\ pc' = "sj_scroll"
         /\ UNCHANGED <<site, inSearch, result>>
    ELSE /\ pc' = "ret"
         /\ inSearch' = FALSE
         /\ result' = IF e = "none" THEN "returned" ELSE e

\* driver.page_source returns and the cards are gone through
PP_Parse ==
    /\ pc = "pp"
    /\ LET out == ParseCards(dom.cards, role, clock, data)
       IN  /\ data' = out.data
           /\ LeaveParse(out.exc)
    /\ clock' = clock + 1
    /\ h' = Use(h)
    /\ UNCHANGED <<site, status, driver, url, dom, served, file, log, roleIdx, role,
                   num_pages, page, i, callee, calls>>

\* driver.page_source raises
PP_SourceRaise ==
    /\ pc = "pp"
    /\ LeaveParse("WebDriverException")
    /\ h' = Use(h)
    /\ UNCHANGED <<site, status, driver, url, dom, served, data, clock, file, log, roleIdx,
                   role, num_pages, page, i, callee, calls>>

---------------------------------------------------------------------------
(* extract_full_descriptions *)

EnterExtract ==
    /\ pc' = "ex_for"
    /\ callee' = "extract_full_descriptions"
    /\ result' = "none"
    /\ i' = 1
    /\ h' = [h EXCEPT !.failed = {},
                      !.unset0 = {k \in 1..Len(data) : "description" \notin DOMAIN data[k]}]

\* for i, job in enumerate(self.data): the next record
EX_Iterate ==
    /\ pc = "ex_for"
    /\ i <= Len(data)
    /\ pc' = "ex_get"
    /\ UNCHANGED <<site, status, driver, url, dom, served, data, clock, file, log, roleIdx,
                   role, num_pages, page, inSearch, i, callee, result, calls, h>>

\* the records are exhausted: extract_full_descriptions returns
EX_Done ==
    /\ pc = "ex_for"
    /\ i > Len(data)
    /\ result' = "returned"
    /\ pc' = "ret"
    /\ UNCHANGED <<site, status, driver, url, dom, served, data, clock, file, log, roleIdx,
                   role, num_pages, page, inSearch, i, callee, calls, h>>

\* EX_Failed without the try statement: the exception leaves the method
EX_FailedAborts ==
    /\ log' = log
    /\ h' = [Use(h) EXCEPT !.failed = @ \cup {i}]
    /\ i' = i
    /\ pc' = "ret"

\* except Exception: logging.error(...) -- and the loop goes on
EX_Failed ==
    /\ log' = log \cup {"error"}
    /\ h' = [Use(h) EXCEPT !.failed = @ \cup {i}]
    /\ i' = i + 1
    /\ pc' = "ex_for"

\* driver.get(job['job_link']) returns; random_sleep(2, 4)
EX_GetOk ==
    /\ pc = "ex_get"
    /\ dom' \in DetailPages
    /\ url' = <<"job", data[i].job_link>>
    /\ h' = Use(h)
    /\ pc' = "ex_src"
    /\ UNCHANGED <<site, status, driver, served, data, clock, file, log, roleIdx, role, num_pages,
                   page, inSearch, i, callee, result, calls>>

EX_GetRaise ==
    /\ pc = "ex_get"
    /\ EX_Failed
    /\ UNCHANGED <<site, status, driver, url, dom, served, data, clock, file, roleIdx, role,
                   num_pages, page, inSearch, callee, result, calls>>

\* the description stored in record n of recs from page p
StoreDescription(recs, n, p) ==
    [recs EXCEPT ![n] = SetDescription(@, DescriptionOf(p))]

\* driver.page_source returns; the description (or None) is stored
EX_Store ==
    /\ pc = "ex_src"
    /\ data' = StoreDescription(data, i, dom)
    /\ h' = Use(h)
    /\ i' = i + 1
    /\ pc' = "ex_for"
    /\ UNCHANGED <<site, status, driver, url, dom, served, clock, file, log, roleIdx, role,
                   num_pages, page, inSearch, callee, result, calls>>

\* driver.page_source raises
EX_SourceRaise ==
    /\ pc = "ex_src"
    /\ EX_Failed
    /\ UNCHANGED <<site, status, driver, url, dom, served, data, clock, file, roleIdx, role,
                   num_pages, page, inSearch, callee, result, calls>>

---------------------------------------------------------------------------
(* save_data *)

EnterSave ==
    /\ pc' = "sd"
    /\ callee' = "save_data"
    /\ result' = "none"

\* Written with the file opened for appending
WrittenAppended(old, recs) ==
    [header |-> IF old.header = <<>> THEN ToCsv(recs).header ELSE old.header,
     rows   |-> old.rows \o ToCsv(recs).rows,
     whole  |-> TRUE]

\* the file save_data leaves when it returns: to_csv opens the path for
\* writing, so what the file held before (old) is gone
Written(old, recs) == ToCsv(recs)

\* the frame is built and written
SD_Write ==
    /\ pc = "sd"
    /\ file' = Written(file, data)
    /\ h' = [h EXCEPT !.saveCalls = @ + 1, !.saved = <<data, file'>>]
    /\ result' = "returned"
    /\ pc' = "ret"
    /\ UNCHANGED <<site, status, driver, url, dom, served, data, clock, log, roleIdx, role,
                   num_pages, page, inSearch, i, callee, calls>>

\* to_csv raises (the directory is missing, the disk is full): the file is as
\* it was, or holds part of the rows
SD_Raise ==
    /\ pc = "sd"
    /\ file' \in {file} \cup {Truncated(ToCsv(data), n) : n \in 0..(Len(data) - 1)}
    /\ h' = [h EXCEPT !.saveCalls = @ + 1]
    /\ result' = "OSError"
    /\ pc' = "ret"
    /\ UNCHANGED <<site, status, driver, url, dom, served, data, clock, log, roleIdx, role,
                   num_pages, page, inSearch, i, callee, calls>>

---------------------------------------------------------------------------
(* close *)

\* self.driver.quit() returns
CL_Quit ==
    /\ pc = "close"
    /\ driver' = "quit"
    /\ h' = h
    /\ result' = "returned"
    /\ pc' = "ret"
    /\ UNCHANGED <<site, status, url, dom, served, data, clock, file, log, roleIdx, role,
                   num_pages, page, inSearch, i, callee, calls>>

\* self.driver.quit() raises
CL_QuitRaise ==
    /\ pc = "close"
    /\ h' = h
    /\ result' = "WebDriverException"
    /\ pc' = "ret"
    /\ UNCHANGED <<site, status, driver, url, dom, served, data, clock, file, log, roleIdx,
                   role, num_pages, page, inSearch, i, callee, calls>>

---------------------------------------------------------------------------
(* __main__ *)

\* scraper = LinkedInScraper(headless=True) returns; the try block is entered
LaunchOk ==
    /\ pc = "launch"
    /\ Construct
    /\ roleIdx' = 1
    /\ pc' = "for_role"
    /\ UNCHANGED <<site, status, url, dom, served, clock, file, log, role, num_pages, page,
                   inSearch, i, callee, result, calls, h>>

\* AfterLaunchRaise with the constructor called inside the try statement
LaunchRaiseInTry ==
    /\ status' = status
    /\ pc' = "except"

\* where control goes when the constructor raises: line 136 is outside the
\* try statement, so the exception ends the process
AfterLaunchRaise ==
    /\ status' = "fatal"
    /\ pc' = "exit"

\* webdriver.Chrome(...) raises
LaunchRaise ==
    /\ pc = "launch"
    /\ AfterLaunchRaise
    /\ UNCHANGED <<site, driver, url, dom, served, data, clock, file, log, roleIdx, role,
                   num_pages, page, inSearch, i, callee, result, calls, h>>

\* for role in target_roles: scraper.search_jobs(role, num_pages=2)
MainCallSearch ==
    /\ pc = "for_role"
    /\ roleIdx <= Len(target_roles)
    /\ EnterSearch(target_roles[roleIdx], MainNumPages)
    /\ UNCHANGED <<site, status, driver, url, dom, served, data, clock, file, log, roleIdx,
                   i, calls>>

\* where the try block goes when search_jobs has returned
AfterSearch ==
    /\ roleIdx' = roleIdx + 1
    /\ pc' = "for_role"

MainSearchReturned ==
    /\ pc = "ret"
    /\ callee = "search_jobs"
    /\ result = "returned"
    /\ AfterSearch
    /\ UNCHANGED <<site, status, driver, url, dom, served, data, clock, file, log, role,
                   num_pages, page, inSearch, i, callee, result, calls, h>>

\* the loop is over: scraper.save_data()
MainCallSave ==
    /\ pc = "for_role"
    /\ roleIdx > Len(target_roles)
    /\ EnterSave
    /\ UNCHANGED <<site, status, driver, url, dom, served, data, clock, file, log, roleIdx,
                   role, num_pages, page, inSearch, i, calls, h>>

MainSaveReturned ==
    /\ pc = "ret"
    /\ callee = "save_data"
    /\ result = "returned"
    /\ pc' = "finally"
    /\ UNCHANGED <<site, status, driver, url, dom, served, data, clock, file, log, roleIdx,
                   role, num_pages, page, inSearch, i, callee, result, calls, h>>

\* MainRaised with the try statement inside the for loop: the failure of one
\* role is passed over and the loop goes on
MainRaisedResumes ==
    /\ pc = "ret"
    /\ callee \in {"search_jobs", "save_data"}
    /\ Raised(result)
    /\ IF callee = "search_jobs"
       THEN pc' = "for_role" /\ roleIdx' = roleIdx + 1
       ELSE pc' = "except" /\ roleIdx' = roleIdx
    /\ UNCHANGED <<site, status, driver, url, dom, served, data, clock, file, log,
                   role, num_pages, page, inSearch, i, callee, result, calls, h>>

\* an exception left search_jobs or save_data: except Exception as e
MainRaised ==
    /\ pc = "ret"
    /\ callee \in {"search_jobs", "save_data"}
    /\ Raised(result)
    /\ pc' = "except"
    /\ UNCHANGED <<site, status, driver, url, dom, served, data, clock, file, log, roleIdx,
                   role, num_pages, page, inSearch, i, callee, result, calls, h>>

\* logging.critical(f"Scraper failed: {e}")
MainExcept ==
    /\ pc = "except"
    /\ log' = log \cup {"critical"}
    /\ pc' = "finally"
    /\ UNCHANGED <<site, status, driver, url, dom, served, data, clock, file, roleIdx, role,
                   num_pages, page, inSearch, i, callee, result, calls, h>>

\* Finally with close() called at the end of the try block instead: a run
\* that failed leaves without it
FinallyUnlessFailed ==
    IF "critical" \in log
    THEN /\ pc' = "ret"
         /\ callee' = "close"
         /\ result' = "returned"
         /\ h' = h
    ELSE /\ pc' = "close"
         /\ callee' = "close"
         /\ result' = "none"
         /\ h' = [h EXCEPT !.closeCalls = @ + 1]

\* what the finally block does
Finally ==
    /\ pc' = "close"
    /\ callee' = "close"
    /\ result' = "none"
    /\ h' = [h EXCEPT !.closeCalls = @ + 1]

\* finally: scraper.close()
MainFinally ==
    /\ pc = "finally"
    /\ Finally
    /\ UNCHANGED <<site, status, driver, url, dom, served, data, clock, file, log, roleIdx,
                   role, num_pages, page, inSearch, i, calls>>

\* close() is over and the script ends: normally, or with close()'s exception
MainExit ==
    /\ pc = "ret"
    /\ callee = "close"
    /\ status' = IF Raised(result) THEN "fatal" ELSE "normal"
    /\ pc' = "exit"
    /\ UNCHANGED <<site, driver, url, dom, served, data, clock, file, log, roleIdx, role,
                   num_pages, page, inSearch, i, callee, result, calls, h>>

Next ==
    \/ LaunchOk \/ LaunchRaise
    \/ MainCallSearch \/ MainSearchReturned \/ MainCallSave \/ MainSaveReturned
    \/ MainRaised \/ MainExcept \/ MainFinally \/ MainExit
    \/ SJ_GetOk \/ SJ_GetRaise \/ SJ_Iterate \/ SJ_Done
    \/ SJ_ScrollOk \/ SJ_ScrollRaise \/ SJ_FindOk \/ SJ_FindRaise
    \/ SJ_ClickOk \/ SJ_ClickRaise
    \/ PP_Parse \/ PP_SourceRaise
    \/ SD_Write \/ SD_Raise
    \/ CL_Quit \/ CL_QuitRaise

\* the entry point, run once
Spec == Init /\ [][Next]_vars

---------------------------------------------------------------------------
(* The methods called in any order on one constructed scraper *)

\* the kinds of card met when all four methods are exercised
ApiCards == {Full1, NoAnchor}

\* the role of the harness's next call: it walks target_roles as __main__ does
NextRole == target_roles[(calls % Len(target_roles)) + 1]

\* LinkedInScraper(...) has returned, with the site showing the cards of kinds
\* and the accumulator holding recs
Constructed(kinds, recs) ==
    /\ pc = "idle"
    /\ status = "running"
    /\ driver = "active"
    /\ url = <<>>
    /\ dom = Blank
    /\ site = kinds
    /\ served = 0
    /\ data = recs
    /\ clock = Len(recs)
    /\ file = NoFile
    /\ log = {}
    /\ roleIdx = 0
    /\ role = <<>>
    /\ num_pages = 0
    /\ page = 0
    /\ inSearch = FALSE
    /\ i = 0
    /\ callee = "none"
    /\ result = "none"
    /\ calls = 0
    /\ h = History0

InitApi == Constructed(ApiCards, <<>>)

ApiCallSearch ==
    /\ pc = "idle"
    /\ calls < MaxCalls
    /\ \E n \in 0..MaxPages : EnterSearch(NextRole, n)
    /\ calls' = calls + 1
    /\ UNCHANGED <<site, status, driver, url, dom, served, data, clock, file, log,
                   roleIdx, i>>

ApiCallParse ==
    /\ pc = "idle"
    /\ calls < MaxCalls
    /\ pc' = "pp"
    /\ callee' = "parse_current_page"
    /\ result' = "none"
    /\ role' = NextRole
    /\ inSearch' = FALSE
    /\ calls' = calls + 1
    /\ UNCHANGED <<site, status, driver, url, dom, served, data, clock, file, log,
                   roleIdx, num_pages, page, i, h>>

ApiCallExtract ==
    /\ pc = "idle"
    /\ calls < MaxCalls
    /\ EnterExtract
    /\ calls' = calls + 1
    /\ UNCHANGED <<site, status, driver, url, dom, served, data, clock, file, log,
                   roleIdx, role, num_pages, page, inSearch>>

ApiCallSave ==
    /\ pc = "idle"
    /\ calls < MaxCalls
    /\ EnterSave
    /\ calls' = calls + 1
    /\ UNCHANGED <<site, status, driver, url, dom, served, data, clock, file, log,
                   roleIdx, role, num_pages, page, inSearch, i, h>>

\* the call is over, by return or by exception, and the harness goes on
ApiReturn ==
    /\ pc = "ret"
    /\ pc' = "idle"
    /\ UNCHANGED <<site, status, driver, url, dom, served, data, clock, file, log,
                   roleIdx, role, num_pages, page, inSearch, i, callee, result, calls, h>>

NextApi ==
    \/ ApiCallSearch \/ ApiCallParse \/ ApiCallExtract \/ ApiCallSave \/ ApiReturn
    \/ SJ_GetOk \/ SJ_GetRaise \/ SJ_Iterate \/ SJ_Done
    \/ SJ_ScrollOk \/ SJ_ScrollRaise \/ SJ_FindOk \/ SJ_FindRaise
    \/ SJ_ClickOk \/ SJ_ClickRaise
    \/ PP_Parse \/ PP_SourceRaise
    \/ EX_Iterate \/ EX_Done \/ EX_GetOk \/ EX_GetRaise \/ EX_Store \/ EX_SourceRaise
    \/ SD_Write \/ SD_Raise

\* any sequence of method calls on one scraper
SpecApi == InitApi /\ [][NextApi]_vars

---------------------------------------------------------------------------
(* The navigator and the parser on a site showing every kind of card *)

InitParse == Constructed(Cards, <<>>)

NextParse ==
    \/ ApiCallSearch \/ ApiCallParse \/ ApiReturn
    \/ SJ_GetOk \/ SJ_GetRaise \/ SJ_Iterate \/ SJ_Done
    \/ SJ_ScrollOk \/ SJ_ScrollRaise \/ SJ_FindOk \/ SJ_FindRaise
    \/ SJ_ClickOk \/ SJ_ClickRaise
    \/ PP_Parse \/ PP_SourceRaise

SpecParse == InitParse /\ [][NextParse]_vars

---------------------------------------------------------------------------
(* Calls of search_jobs alone.  The thread of control is the only one and   *)
(* every driver call returns or raises, so a step that can be taken is      *)
(* taken.                                                                   *)

InitSearch == Constructed(ApiCards, <<>>)

NextSearch ==
    \/ ApiCallSearch \/ ApiReturn
    \/ SJ_GetOk \/ SJ_GetRaise \/ SJ_Iterate \/ SJ_Done
    \/ SJ_ScrollOk \/ SJ_ScrollRaise \/ SJ_FindOk \/ SJ_FindRaise
    \/ SJ_ClickOk \/ SJ_ClickRaise
    \/ PP_Parse \/ PP_SourceRaise

SpecSearch == InitSearch /\ [][NextSearch]_vars /\ WF_vars(NextSearch)

---------------------------------------------------------------------------
(* The detail fetcher and the writer on any accumulator the parser and the *)
(* detail fetcher can have left                                            *)

\* record n of an accumulator: parsed from card c on page n, and then left
\* without a description (d = <<>>) or given d[1] by the detail fetcher
SampleRecord(c, n, d) ==
    LET rec == MakeRecord(c, target_roles[1], n - 1)
    IN  IF d = <<>> THEN rec ELSE SetDescription(rec, d[1])

SampleDescriptions == {<<>>, <<None>>, <<Strip(<<" ", "J", "D", " ">>)>>}

\* the accumulators of at most n records
Accumulators(n) ==
    UNION {
        {[k \in 1..m |-> SampleRecord(cs[k], k, ds[k])] :
            cs \in [1..m -> {Full1, Full2}], ds \in [1..m -> SampleDescriptions]}
        : m \in 0..n}

InitData == \E recs \in Accumulators(MaxRecords) : Constructed({}, recs)

NextData ==
    \/ ApiCallExtract \/ ApiCallSave \/ ApiReturn
    \/ EX_Iterate \/ EX_Done \/ EX_GetOk \/ EX_GetRaise \/ EX_Store \/ EX_SourceRaise
    \/ SD_Write \/ SD_Raise

SpecData == InitData /\ [][NextData]_vars

---------------------------------------------------------------------------
(* Properties of the entry point, checked under Spec *)

\* close() has been called and the script is in it or past it
Closing == pc \in {"close", "exit"} \/ (pc = "ret" /\ callee = "close")

\* the try statement has been left for its except or finally clause
LeftTry == pc \in {"except", "finally"} \/ Closing

\* C1: in a run whose browser was launched, close() is called exactly once,
\* at the end of the run, whether or not an exception was raised in
\* search_jobs, parse_current_page or save_data, and no driver call is made
\* after it.
C1_ClosedExactlyOnce ==
    /\ h.closeCalls <= 1
    /\ h.closeCalls = 1 <=> (Closing /\ driver # "none")
    /\ (pc = "exit" /\ driver # "none") => h.closeCalls = 1
    /\ ~h.lateUse

\* a run that failed in the middle of the scrape, with records accumulated,
\* has ended with close() called
C1_Witness ==
    /\ pc = "exit"
    /\ "critical" \in log
    /\ Len(data) > 0
    /\ h.closeCalls = 1

\* C4: a failure of the scroll, of the lookup of the "next" button or of the
\* click ends the pagination of that role without raising: search_jobs
\* returns, the accumulator is as it was, and the for loop of the entry point
\* goes on with the next role.
C4_PaginationFailureStops ==
    [][/\ (pc \in {"sj_scroll", "sj_find", "sj_click"} /\ pc' = "ret")
            => (result' = "returned" /\ data' = data /\ callee' = "search_jobs")
       /\ (pc = "ret" /\ callee = "search_jobs" /\ h.paginations > h.clicksOk)
            => (/\ result = "returned"
                /\ pc' = "for_role"
                /\ roleIdx' = roleIdx + 1
                /\ data' = data)
       /\ (pc = "for_role" /\ roleIdx <= Len(target_roles))
            => (pc' = "sj_get" /\ role' = target_roles[roleIdx])
      ]_vars

\* the second role is being searched after the pagination of the first one
\* failed, with the first role's records kept
C4_Witness ==
    /\ pc = "sj_get"
    /\ roleIdx = 2
    /\ "warning" \in log
    /\ "critical" \notin log
    /\ Len(data) > 0
    /\ data[1].role_category = target_roles[1]

\* C5 as stated: when the launch fails the error ends the process and the
\* cleanup block still calls close().
C5_LaunchFailureStillCloses ==
    (pc = "exit" /\ driver = "none") => (status = "fatal" /\ h.closeCalls >= 1)

\* C5, amended: when the launch fails the error ends the process at once; the
\* try statement is never entered, so nothing is logged as critical, nothing
\* is searched or saved, and close() is not called.
C5_LaunchFailureIsFatal ==
    (pc # "launch" /\ driver = "none")
        => /\ pc = "exit"
           /\ status = "fatal"
           /\ h.closeCalls = 0
           /\ h.searches = 0
           /\ h.saveCalls = 0
           /\ log = {}

\* the launch has failed
C5_Witness == pc = "exit" /\ driver = "none" /\ status = "fatal"

\* C10: save_data is called at most once, only after search_jobs has returned
\* for all five roles, and before close(); when an exception leaves
\* search_jobs for some role, the roles after it are not searched, save_data
\* is never called and nothing is written, the error is logged at the
\* outermost scope and close() is still called.
C10_SaveOnlyAfterAllRoles ==
    /\ h.saveCalls <= 1
    /\ (pc = "sd" \/ h.saveCalls = 1)
          => (h.searchesOk = Len(target_roles) /\ roleIdx = Len(target_roles) + 1)
    /\ pc = "sd" => h.closeCalls = 0
    /\ (LeftTry /\ driver # "none" /\ roleIdx <= Len(target_roles))
          => /\ h.searches = roleIdx
             /\ h.searchesOk = roleIdx - 1
             /\ h.saveCalls = 0
             /\ file = NoFile
             /\ Closing => "critical" \in log
             /\ pc = "exit" => h.closeCalls = 1

\* a parser error left search_jobs for the second role, after records of the
\* first role were accumulated
C10_Witness ==
    /\ pc = "except"
    /\ result = "TypeError"
    /\ roleIdx = 2
    /\ Len(data) > 0

---------------------------------------------------------------------------
(* Properties of the parser, checked under SpecParse *)

\* the card has its title, company, location and link
Complete(card) ==
    /\ card.title # <<>>
    /\ card.company # <<>>
    /\ card.location # <<>>
    /\ card.anchor # <<>>
    /\ card.anchor[1] # <<>>

\* the step is the run of parse_current_page over the page the browser holds
ParsesPage == pc = "pp" /\ clock' # clock

\* the stripped texts of the cards of the site
Trimmed(t) ==
    CASE t = <<" ", "A", " ">> -> <<"A">>
      [] t = <<"C", " ">>      -> <<"C">>
      [] t = <<" ", "L">>      -> <<"L">>
      [] OTHER                 -> t

\* the records claimed for the complete cards among cards, in card order
RECURSIVE Expected(_, _, _)
Expected(cards, r, now) ==
    IF cards = <<>> THEN <<>>
    ELSE LET c == Head(cards)
         IN  (IF Complete(c)
              THEN << [job_title     |-> Trimmed(c.title[1]),
                       company       |-> Trimmed(c.company[1]),
                       location      |-> Trimmed(c.location[1]),
                       job_link      |-> c.anchor[1][1],
                       role_category |-> r,
                       scraped_date  |-> now] >>
              ELSE <<>>) \o Expected(Tail(cards), r, now)

\* C2: a card that lacks its title, company, location, link anchor or href
\* adds no record, the cards after it are still gone through, and no
\* exception leaves parse_current_page, wherever the card is on the page.
C2_IncompleteCardSkipped ==
    [][ParsesPage =>
          /\ ~Raised(result')
          /\ Len(data') - Len(data) =
                Cardinality({k \in DOMAIN dom.cards : Complete(dom.cards[k])})
      ]_vars

\* C3: parse_current_page(role) appends one record for each complete card of
\* the page, in card order, with that card's title, company, location and
\* link and with role_category = role; incomplete cards among them add none.
C3_OneRecordPerCompleteCard ==
    [][ParsesPage => data' = data \o Expected(dom.cards, role, clock)]_vars

---------------------------------------------------------------------------
(* Properties of the navigator, checked under SpecSearch, and of the       *)
(* accumulator, checked under SpecApi                                      *)

Min(a, b) == IF a < b THEN a ELSE b

InSearchJobs == callee = "search_jobs" /\ pc # "idle"

\* C9 as stated: a call of search_jobs ends having parsed
\* min(num_pages, 1 + successful clicks) pages, with a click attempted after
\* every parse.
C9_ParsesMinOfPagesAndClicks ==
    (InSearchJobs /\ pc = "ret")
        => /\ h.parses = Min(num_pages, 1 + h.clicksOk)
           /\ h.clicks = h.parses

\* C9, amended: every call of search_jobs ends, by return or by exception,
\* having parsed at most num_pages pages: none when the first navigation raised,
\* and min(num_pages, 1 + successful clicks) otherwise.  Each parse comes
\* before the pagination attempt (scroll, lookup, click) of its iteration;
\* the attempt is made after every parse that returned, the one of the last
\* page too, and the click itself only when the scroll and the lookup
\* succeeded.  With num_pages = 0 nothing is parsed.
C9_ParsesBounded ==
    /\ (pc = "sj_get" ~> pc = "ret")
    /\ [](InSearchJobs
        => /\ h.parses <= num_pages
           /\ h.parses = page + (IF pc \in {"pp", "sj_scroll", "sj_find", "sj_click"} THEN 1 ELSE 0)
                \/ pc = "ret"
           /\ h.clicksOk <= h.clicks
           /\ h.clicks <= h.paginations
           /\ h.paginations <= h.parses
           /\ pc \in {"sj_find", "sj_click"} => h.paginations = h.parses
           /\ pc \in {"pp", "sj_scroll"} => h.paginations = h.parses - 1
           /\ pc = "sj_click" => h.clicks = h.parses - 1
           /\ pc = "ret"
                => /\ h.parses = (IF h.navOk THEN Min(num_pages, 1 + h.clicksOk) ELSE 0)
                   /\ result = "returned" => h.paginations = h.parses
                   /\ Raised(result) => h.paginations = h.clicksOk
           /\ num_pages = 0 => h.parses = 0)

\* a call with num_pages = 2 parsed two pages; the click after the second
\* parse was made and succeeded
C9_Witness ==
    /\ InSearchJobs
    /\ pc = "ret"
    /\ result = "returned"
    /\ num_pages = 2
    /\ h.parses = 2
    /\ h.clicksOk = 2

BaseKeys == {"job_title", "company", "location", "job_link", "role_category",
             "scraped_date"}

Base(rec) == [k \in BaseKeys |-> rec[k]]

\* C8: the accumulator is empty at construction and only grows: no step of
\* any method makes it shorter, every record keeps its position and its
\* title, company, location, link, role_category and timestamp, and the only
\* change to a record is extract_full_descriptions setting its description.
C8_AccumulatorOnlyGrows ==
    /\ [](calls = 0 => data = <<>>)
    /\ [][/\ Len(data') >= Len(data)
          /\ \A k \in 1..Len(data) :
                /\ BaseKeys \subseteq DOMAIN data'[k]
                /\ Base(data'[k]) = Base(data[k])
                /\ DOMAIN data'[k] \subseteq BaseKeys \cup {"description"}
                /\ data'[k] # data[k]
                     => /\ callee = "extract_full_descriptions"
                        /\ k = i
                        /\ "description" \in DOMAIN data'[k]
                        /\ \A j \in 1..Len(data) : j # k => data'[j] = data[j]
         ]_vars

\* a record that search_jobs appended has been given its description
C8_Witness ==
    /\ pc = "idle"
    /\ calls = 2
    /\ Len(data) >= 1
    /\ "description" \in DOMAIN data[1]
    /\ data[1].description = <<"J", "D">>

---------------------------------------------------------------------------
(* Properties of the detail fetcher and of the writer, checked under SpecData *)

InExtract == callee = "extract_full_descriptions" /\ pc # "idle"

\* C6: in extract_full_descriptions a failure for one record leaves every
\* record as it was (so a record without a description stays without one),
\* and the loop goes on with the next record; no step changes the length or
\* the order of the accumulator or any field but the description of the
\* record being fetched.  The call always returns, and then every record has
\* its description set, to the trimmed text or to None, or had a failure.
C6_FetchFailureIsPerRecord ==
    /\ [](InExtract
            => /\ ~Raised(result)
               /\ h.failed \subseteq 1..Len(data)
               /\ \A k \in h.failed \cap h.unset0 : "description" \notin DOMAIN data[k]
               /\ pc = "ret"
                    => /\ result = "returned"
                       /\ i = Len(data) + 1
                       /\ \A k \in 1..Len(data) :
                            \/ k \in h.failed
                            \/ /\ "description" \in DOMAIN data[k]
                               /\ data[k].description \in {None, <<"J", "D">>})
    /\ [][InExtract
            => /\ Len(data') = Len(data)
               /\ \A k \in 1..Len(data) :
                    /\ Base(data'[k]) = Base(data[k])
                    /\ k # i => data'[k] = data[k]
               /\ h'.failed # h.failed
                    => /\ data' = data
                       /\ h'.failed = h.failed \cup {i}
                       /\ i' = i + 1
                       /\ pc' = "ex_for"
         ]_vars

\* the fetch of the first of two records failed and left it without a
\* description; the second was fetched after it and has its trimmed text
C6_Witness ==
    /\ InExtract
    /\ pc = "ret"
    /\ Len(data) = 2
    /\ h.failed = {1}
    /\ "description" \notin DOMAIN data[1]
    /\ 2 \in h.unset0
    /\ data[2].description = <<"J", "D">>

KeysIn(recs) == UNION {DOMAIN recs[k] : k \in DOMAIN recs}

\* the cell claimed for key k of record rec
ExpectedCell(rec, k) ==
    IF k \notin DOMAIN rec THEN <<>>
    ELSE IF k = "scraped_date" THEN <<Digit[rec[k] + 1]>>
    ELSE IF k = "description" /\ rec[k] = None THEN <<>>
    ELSE rec[k]

\* C7: save_data writes a header whose columns are the union of the keys of
\* the records and one row per record, in the order of the accumulator, a
\* missing description being an empty cell; it does not change the
\* accumulator, and a second save of the same accumulator writes the same
\* content.
C7_SaveWritesEveryRecord ==
    /\ []((pc = "ret" /\ callee = "save_data" /\ result = "returned")
            => /\ file.whole
               /\ Range(file.header) = KeysIn(data)
               /\ Cardinality(Range(file.header)) = Len(file.header)
               /\ Len(file.rows) = Len(data)
               /\ \A k \in 1..Len(data) :
                    /\ Len(file.rows[k]) = Len(file.header)
                    /\ \A c \in 1..Len(file.header) :
                         file.rows[k][c] = ExpectedCell(data[k], file.header[c]))
    /\ [][pc = "sd"
            => /\ data' = data
               /\ (result' = "returned" /\ h.saved # <<>> /\ h.saved[1] = data)
                     => file' = h.saved[2]
         ]_vars

\* the accumulator, whose first record has a description and whose second
\* has none, was saved twice running and the file holds the empty cell
C7_Witness ==
    /\ pc = "ret"
    /\ callee = "save_data"
    /\ result = "returned"
    /\ h.saveCalls = 2
    /\ h.saved = <<data, file>>
    /\ Len(data) = 2
    /\ "description" \in DOMAIN data[1]
    /\ "description" \notin DOMAIN data[2]
    /\ Len(file.header) = 7
    /\ file.rows[2][7] = <<>>
    /\ file.rows[1][7] # <<>>

====
